---- MODULE Spec2Model ----
(***************************************************************************)
(* A model of sparkySuppress.py: the CSV file pass (processFile) feeding   *)
(* the three remote actions (noAction, updateSuppressionList,              *)
(* deleteSuppressionList with its deleter threads), and the paginated      *)
(* retrieval (RetrieveSuppListToFile over getSuppressionList).             *)
(*                                                                         *)
(* Text is modelled as a sequence of atoms.  An atom is a run of           *)
(* characters that the string operations of the program treat uniformly:   *)
(* a word in one letter-case, one blank, one quote character, the "@".     *)
(* The string operations (strip, lower, title, stripQuotes) are computed   *)
(* atom by atom, as the program computes them character by character.      *)
(***************************************************************************)
EXTENDS Integers, Sequences, FiniteSets, TLC

\* ------------------------------------------------------------------ bounds
MaxLines == 4           \* physical lines read from the CSV file, header included
MaxBatchSize == 2       \* largest configured BatchSize
MaxThreads == 2         \* largest configured DeleteThreads
MaxTries == 2           \* requests one deleter thread / one list fetch may issue
MaxPages == 3           \* pages one retrieval may receive

VARIABLES
  \* configuration read from sparkpost.ini and the command line
  cmd, batchSize, typeDefault, descDefault, Nthreads,
  \* processFile: position, header, counters, dedup set, pending batch
  pc, exc, lineNum, hdr, final,
  addrsChecked, goodRecips, duplicateRecips, badRecips, doneRecips,
  goodFlags, defaultedFlags, seen, recipBatch,
  \* what processFile and updateSuppressionList did so far
  rowsLog, calls, rets, puts,
  \* deleteSuppressionList and threadAction: loop positions, the threads
  dpos, threadRecips, doneCount, ti, taCount, th, threads, taCalls, taRets,
  \* RetrieveSuppListToFile: p['cursor'], page number, the requests and pages so far
  cursor, suppPage, gtries, gets, lastGet, pagesRx, totalReports

config == <<cmd, batchSize, typeDefault, descDefault, Nthreads>>
counters == <<addrsChecked, goodRecips, duplicateRecips, badRecips, goodFlags, defaultedFlags>>
history == <<rowsLog, calls, rets, puts>>
delvars == <<dpos, threadRecips, doneCount, ti, taCount, th, threads, taCalls, taRets>>
retvars == <<cursor, suppPage, gtries, gets, lastGet, pagesRx, totalReports>>
vars == <<config, pc, exc, lineNum, hdr, final, counters, doneRecips, seen, recipBatch, history,
          delvars, retvars>>

\* ---------------------------------------------------------- HTTP responses
Resp(code, msg) == [code |-> code, msg |-> msg]
RateLimited == Resp(429, "Too many requests")
Other429 == Resp(429, "Quota exceeded")
NoResponse == Resp(0, "#None")

\* -------------------------------------------------------- program constants
T == 60
JoinTimeout == T + 10
flagNames == << <<"transactional">>, <<"non_transactional">> >>
fieldNames == << <<"recipient">>, <<"type">>, <<"source">>, <<"description">>,
                 <<"created">>, <<"updated">>, <<"subaccount_id">> >>

fRecipient == <<"recipient">>
fType == <<"type">>
fDescription == <<"description">>

\* Python's None, True and False, kept apart from every text value.
NoneVal == <<"#None">>
PyBool(b) == IF b THEN <<"#True">> ELSE <<"#False">>

Range(s) == {s[i] : i \in 1..Len(s)}
SetMin(S) == CHOOSE x \in S : \A y \in S : x <= y
SetMax(S) == CHOOSE x \in S : \A y \in S : x >= y

\* ------------------------------------------------------------ text helpers
\* str.lower(), one atom.
LowerAtom(a) ==
  CASE a = "A" -> "a"
    [] a = "B" -> "b"
    [] a = "X.C" -> "x.c"
    [] a = "Transactional" -> "transactional"
    [] a = "Non_Transactional" -> "non_transactional"
    [] a = "TRUE" -> "true"
    [] a = "True" -> "true"
    [] a = "False" -> "false"
    [] a = "Maybe" -> "maybe"
    [] OTHER -> a

\* str.title(), one atom: first letter of each word upper, the rest lower.
TitleAtom(a) ==
  CASE LowerAtom(a) = "true" -> "True"
    [] LowerAtom(a) = "false" -> "False"
    [] LowerAtom(a) = "maybe" -> "Maybe"
    [] LowerAtom(a) = "a" -> "A"
    [] LowerAtom(a) = "b" -> "B"
    [] LowerAtom(a) = "x.c" -> "X.C"
    [] LowerAtom(a) = "transactional" -> "Transactional"
    [] LowerAtom(a) = "non_transactional" -> "Non_Transactional"
    [] OTHER -> a

Lower(s) == [i \in 1..Len(s) |-> LowerAtom(s[i])]
Title(s) == [i \in 1..Len(s) |-> TitleAtom(s[i])]

\* str.strip(): leading and trailing blanks removed.
Strip(s) ==
  LET keep == {i \in 1..Len(s) : s[i] # " "}
  IN IF keep = {} THEN <<>> ELSE SubSeq(s, SetMin(keep), SetMax(keep))

\* stripQuotes: one pair of surrounding quotes (both single or both double).
stripQuotes(s) ==
  IF Len(s) >= 1 /\ ( (s[1] = "\"" /\ s[Len(s)] = "\"") \/ (s[1] = "'" /\ s[Len(s)] = "'") )
  THEN SubSeq(s, 2, Len(s) - 1)
  ELSE s

\* distutils.util.strtobool: "t", "f", or "err" for ValueError.
TrueWords == {<<"y">>, <<"yes">>, <<"t">>, <<"true">>, <<"on">>, <<"1">>}
FalseWords == {<<"n">>, <<"no">>, <<"f">>, <<"false">>, <<"off">>, <<"0">>}
strtobool(s) ==
  IF Lower(s) \in TrueWords THEN "t"
  ELSE IF Lower(s) \in FalseWords THEN "f"
  ELSE "err"

\* email_validator.validate_email(check_deliverability=False): a local part,
\* one "@", a domain with a period; the normalised form has the domain
\* lower-cased and the local part as given.
LocalAtoms == {"a", "A", "b", "B"}
DomainAtoms == {"x.c", "X.C"}
validate_email(s) ==
  IF Len(s) = 3 /\ s[1] \in LocalAtoms /\ s[2] = "@" /\ s[3] \in DomainAtoms
  THEN [ok |-> TRUE, email |-> <<s[1], "@", LowerAtom(s[3])>>]
  ELSE [ok |-> FALSE, email |-> s]

\* ------------------------------------------------------- row normalisation
Put(row, k, v) == [x \in (DOMAIN row) \cup {k} |-> IF x = k THEN v ELSE row[x]]

\* Lines 306-310: header name -> stripped cell, empty cells left out.
RowDict(h, r) ==
  LET cols == {i \in 1..Len(h) : Strip(r[i]) # <<>>}
      last(k) == SetMax({i \in cols : h[i] = k})
  IN [k \in {h[i] : i \in cols} |-> Strip(r[last(k)])]

\* A recipient check that lets every non-empty cell pass as it is.
RecipStage_AcceptAll(row) ==
  IF fRecipient \in DOMAIN row
  THEN [row |-> row, recipOK |-> TRUE, bad |-> FALSE]
  ELSE [row |-> row, recipOK |-> FALSE, bad |-> FALSE]

\* Lines 313-323: the recipient is validated, normalised and lower-cased.
RecipStage(row) ==
  IF fRecipient \in DOMAIN row
  THEN LET v == validate_email(row[fRecipient])
       IN IF v.ok
          THEN [row |-> [row EXCEPT ![fRecipient] = Lower(v.email)], recipOK |-> TRUE, bad |-> FALSE]
          ELSE [row |-> row, recipOK |-> FALSE, bad |-> TRUE]
  ELSE [row |-> row, recipOK |-> FALSE, bad |-> FALSE]

\* Lines 337-342: the two deprecated flags, converted in order; the first
\* that does not convert stops the loop with that cell left as cleaned text.
FlagPairStage(row) ==
  LET c1 == stripQuotes(Title(row[flagNames[1]]))
      c2 == stripQuotes(Title(row[flagNames[2]]))
  IN IF strtobool(c1) = "err"
     THEN [row |-> [row EXCEPT ![flagNames[1]] = c1], flagsOK |-> FALSE]
     ELSE IF strtobool(c2) = "err"
     THEN [row |-> [row EXCEPT ![flagNames[1]] = PyBool(strtobool(c1) = "t"),
                                ![flagNames[2]] = c2], flagsOK |-> FALSE]
     ELSE [row |-> [row EXCEPT ![flagNames[1]] = PyBool(strtobool(c1) = "t"),
                                ![flagNames[2]] = PyBool(strtobool(c2) = "t")], flagsOK |-> TRUE]

\* Lines 325-344: the `type` field first, else the deprecated flag pair.
FlagStage(row) ==
  IF fType \in DOMAIN row
  THEN LET t == stripQuotes(Lower(row[fType]))
       IN [row |-> [row EXCEPT ![fType] = t], flagsOK |-> t \in Range(flagNames)]
  ELSE IF flagNames[1] \in DOMAIN row /\ flagNames[2] \in DOMAIN row
  THEN FlagPairStage(row)
  ELSE [row |-> row, flagsOK |-> FALSE]

\* Lines 347-355: the defaults applied.
DefaultStage(row, flagsOK, tDefault, dDefault) ==
  LET r1 == IF flagsOK THEN row ELSE Put(row, fType, tDefault)
  IN IF fDescription \notin DOMAIN r1 /\ dDefault # NoneVal
     THEN Put(r1, fDescription, dDefault)
     ELSE r1

\* Lines 306-355 as one function of the line.
Normalise(h, r, tDefault, dDefault) ==
  LET a == RecipStage(RowDict(h, r))
      b == FlagStage(a.row)
  IN [row |-> DefaultStage(b.row, b.flagsOK, tDefault, dDefault),
      recipOK |-> a.recipOK, bad |-> a.bad, flagsOK |-> b.flagsOK]

\* A dedup key that leaves the type out.
IdentityKey_RecipientOnly(row) == <<row[fRecipient], NoneVal>>

\* Lines 360-363: the identity key.
IdentityKey(row) ==
  IF fType \in DOMAIN row THEN <<row[fRecipient], row[fType]>>
  ELSE <<row[fRecipient], NoneVal>>

\* ------------------------------------------------------------ the CSV file
eA == <<"a", "@", "x.c">>
eAup == <<" ", "A", "@", "X.C", " ">>
eB == <<"b", "@", "x.c">>
eBad == <<"a", "x.c">>
empty == <<>>

Headers == { <<fRecipient>>, <<fRecipient, fType>>,
             <<fRecipient, flagNames[1], flagNames[2]>>,
             <<fRecipient, fType, flagNames[1], flagNames[2]>> }

\* What line 1 of the file may hold: a header, a header with an unknown
\* field name, a line that is neither header nor bare address, a bare
\* address, a blank line.
FirstLines == Headers \cup { <<fRecipient, <<"bogus">> >>, << <<"email">> >>, <<eA>>, <<>> }

\* Files given to `delete` are kept to the one-column and headerless forms.
FirstLinesFor(c) ==
  IF c = "delete" THEN FirstLines \ (Headers \ {<<fRecipient>>}) ELSE FirstLines

\* The data lines offered under a header; the last of each is a line with
\* the wrong number of cells.
DataLines(h) ==
  IF h = <<fRecipient>>
  THEN { <<eA>>, <<eAup>>, <<eB>>, <<eBad>>, <<empty>>, <<>> }
  ELSE IF h = <<fRecipient, fType>>
  THEN { <<eA, <<"transactional">> >>,
         <<eAup, <<"'", "Transactional", "'">> >>,
         <<eA, <<"non_transactional">> >>,
         <<eA, <<"bogus">> >>,
         <<eB, empty>>,
         <<eBad, <<"transactional">> >>,
         <<empty, <<"non_transactional">> >>,
         <<eA>> }
  ELSE IF h = <<fRecipient, fType, flagNames[1], flagNames[2]>>
  THEN { <<eA, <<"bogus">>, <<"true">>, <<"false">> >>,
         <<eA, <<"transactional">>, <<"false">>, <<"true">> >>,
         <<eB, empty, <<"true">>, <<"false">> >> }
  ELSE { <<eA, <<"true">>, <<"false">> >>,
         <<eAup, <<"\"", "TRUE", "\"">>, <<"False">> >>,
         <<eA, <<"false">>, <<"true">> >>,
         <<eA, <<"maybe">>, <<"true">> >>,
         <<eA, <<"true">>, <<"Maybe">> >>,
         <<eB, <<"true">>, empty>>,
         <<eBad, <<"true">>, <<"false">> >>,
         <<eA, <<"true">> >> }

\* Files given to `delete` hold plain addresses, an invalid one, a blank line.
DataLinesFor(c, h) ==
  IF c = "delete" THEN { <<eA>>, <<eB>>, <<eBad>>, <<>> } ELSE DataLines(h)

\* ------------------------------------------------------------------- Init
Commands == {"check", "update"}

\* Python values of p['cursor']: the string set at line 239, or the list
\* that parse_qs gives at line 260.
PyStr(v) == [kind |-> "str", val |-> v]
PyList(vs) == [kind |-> "list", val |-> vs]

InitState ==
  /\ exc = "none" /\ lineNum = 0 /\ hdr = <<>> /\ final = FALSE
  /\ addrsChecked = 0 /\ goodRecips = 0 /\ duplicateRecips = 0 /\ badRecips = 0
  /\ doneRecips = 0 /\ goodFlags = 0 /\ defaultedFlags = 0
  /\ seen = {} /\ recipBatch = <<>>
  /\ rowsLog = <<>> /\ calls = <<>> /\ rets = <<>> /\ puts = <<>>
  /\ dpos = 0 /\ threadRecips = <<>> /\ doneCount = 0 /\ ti = 0 /\ taCount = 0
  /\ th = <<>> /\ threads = <<>> /\ taCalls = <<>> /\ taRets = <<>>
  /\ cursor = PyStr("initial") /\ suppPage = 1 /\ gtries = 0
  /\ gets = <<>> /\ lastGet = [response |-> NoResponse, outcome |-> "none"]
  /\ pagesRx = <<>> /\ totalReports = 0

InitConfig(commands) ==
  /\ InitState
  /\ pc = "header"
  /\ cmd \in commands
  /\ Nthreads \in (IF cmd = "delete" THEN 1..MaxThreads ELSE {MaxThreads})
  /\ \E b \in 1..MaxBatchSize \cup (IF cmd = "delete" THEN {10 * Nthreads + 1} ELSE {}) :
        \* line 468: the batch size is capped for delete
        batchSize = IF cmd = "delete" /\ 10 * Nthreads < b THEN 10 * Nthreads ELSE b
  /\ typeDefault \in (IF cmd = "delete" THEN {flagNames[2]} ELSE Range(flagNames))
  /\ descDefault = (IF typeDefault = flagNames[1] THEN <<"d">> ELSE NoneVal)

\* ------------------------------------------------------------ processFile
\* A fault that is reported and passed over.
Abort_Continue(e) ==
  /\ pc' = "rows" /\ exc' = e
  /\ UNCHANGED <<config, final, counters, doneRecips, seen, recipBatch, history>>
  /\ UNCHANGED <<delvars, retvars>>

\* exit(1), or an exception nothing catches: the run ends there.
Abort(e) ==
  /\ pc' = "aborted" /\ exc' = e
  /\ UNCHANGED <<config, final, counters, doneRecips, seen, recipBatch, history>>
  /\ UNCHANGED <<delvars, retvars>>

\* A flush test that is off by one.
BatchFull_OffByOne(batch) == Len(batch) > batchSize

\* Line 372: the pending batch has reached the configured size.
BatchFull(batch) == Len(batch) >= batchSize

\* An end-of-stream test that flushes full batches only.
FinalFlushNeeded_FullOnly(batch) == Len(batch) >= batchSize

\* Line 376: a partial batch remains at the end of the stream.
FinalFlushNeeded(batch) == Len(batch) > 0

\* Lines 359-374: duplicate filter and batching of a normalised row.
Accumulate(n) ==
  IF ~n.recipOK
  THEN /\ pc' = "rows"
       /\ UNCHANGED <<duplicateRecips, goodRecips, seen, recipBatch, calls, final>>
  ELSE IF IdentityKey(n.row) \in seen
  THEN /\ duplicateRecips' = duplicateRecips + 1
       /\ pc' = "rows"
       /\ UNCHANGED <<goodRecips, seen, recipBatch, calls, final>>
  ELSE /\ goodRecips' = goodRecips + 1
       /\ seen' = seen \cup {IdentityKey(n.row)}
       /\ recipBatch' = Append(recipBatch, n.row)
       /\ UNCHANGED duplicateRecips
       /\ IF BatchFull(recipBatch')
          THEN pc' = "call" /\ final' = FALSE /\ calls' = Append(calls, recipBatch')
          ELSE pc' = "rows" /\ UNCHANGED <<final, calls>>

\* Lines 300-374: one data line r under header h.
ProcessLine(h, r) ==
  IF Len(r) # Len(h)
  THEN Abort("exit1")
  ELSE LET n == Normalise(h, r, typeDefault, descDefault)
       IN /\ rowsLog' = Append(rowsLog, [raw |-> r, row |-> n.row, recipOK |-> n.recipOK,
                                          flagsOK |-> n.flagsOK])
          /\ badRecips' = IF n.bad THEN badRecips + 1 ELSE badRecips
          /\ addrsChecked' = addrsChecked + 1
          /\ goodFlags' = IF n.flagsOK THEN goodFlags + 1 ELSE goodFlags
          /\ defaultedFlags' = IF n.flagsOK THEN defaultedFlags ELSE defaultedFlags + 1
          /\ Accumulate(n)
          /\ exc' = exc
          /\ UNCHANGED <<config, doneRecips, rets, puts, delvars, retvars>>

\* Lines 285-298: line 1 of the file.
ReadHeader ==
  /\ pc = "header"
  /\ \E r \in FirstLinesFor(cmd) :
       /\ lineNum' = 1
       /\ IF fRecipient \in Range(r)
          THEN IF \A i \in 1..Len(r) : r[i] \in Range(fieldNames) \cup Range(flagNames)
               THEN /\ hdr' = r /\ pc' = "rows"
                    /\ UNCHANGED <<config, exc, final, counters, doneRecips, seen, recipBatch,
                                    history, delvars, retvars>>
               ELSE hdr' = r /\ Abort("exit1")
          ELSE IF Len(r) = 0
          THEN hdr' = hdr /\ Abort("IndexError")
          ELSE IF "@" \in Range(r[1]) /\ Len(r) = 1
          THEN hdr' = <<fRecipient>> /\ ProcessLine(<<fRecipient>>, r)
          ELSE hdr' = hdr /\ Abort("exit1")

\* Lines 283-374: a later line of the file.
ReadRow ==
  /\ pc = "rows"
  /\ lineNum < MaxLines
  /\ \E r \in DataLinesFor(cmd, hdr) :
       /\ lineNum' = lineNum + 1
       /\ hdr' = hdr
       /\ ProcessLine(hdr, r)

\* Lines 376-385: end of the stream: the final partial batch, the summary.
EndOfFile ==
  /\ pc \in {"header", "rows"}
  /\ IF FinalFlushNeeded(recipBatch)
     THEN pc' = "call" /\ final' = TRUE /\ calls' = Append(calls, recipBatch)
     ELSE pc' = "done" /\ UNCHANGED <<final, calls>>
  /\ UNCHANGED <<config, exc, lineNum, hdr, counters, doneRecips, seen, recipBatch, rowsLog, rets, puts>>
  /\ UNCHANGED <<delvars, retvars>>

\* A caller that adds the returned count twice.
ActionReturn_Doubled(n) ==
  /\ doneRecips' = doneRecips + n + n
  /\ rets' = Append(rets, n)
  /\ recipBatch' = IF final THEN recipBatch ELSE <<>>
  /\ pc' = IF final THEN "done" ELSE "rows"
  /\ UNCHANGED <<config, exc, lineNum, hdr, final, counters, seen, rowsLog, calls>>

\* Lines 373-374 and 377: the action returned n.
ActionReturn(n) ==
  /\ doneRecips' = doneRecips + n
  /\ rets' = Append(rets, n)
  /\ recipBatch' = IF final THEN recipBatch ELSE <<>>
  /\ pc' = IF final THEN "done" ELSE "rows"
  /\ UNCHANGED <<config, exc, lineNum, hdr, final, counters, seen, rowsLog, calls>>

\* A dry run that reports its batch as done.
noAction_Counting ==
  /\ pc = "call" /\ cmd = "check"
  /\ ActionReturn(Len(recipBatch))
  /\ UNCHANGED <<puts, delvars, retvars>>

\* Lines 218-219.
noAction ==
  /\ pc = "call" /\ cmd = "check"
  /\ ActionReturn(0)
  /\ UNCHANGED <<puts, delvars, retvars>>

\* Lines 103-106: what the PUT may be answered.
PutResponses == {Resp(200, ""), Resp(400, "invalid data"), RateLimited}

\* An upsert that sends a rejected batch again.
updateSuppressionList_Resend ==
  /\ pc = "call" /\ cmd = "update"
  /\ UNCHANGED <<delvars, retvars>>
  /\ \E response \in PutResponses :
       /\ puts' = Append(puts, [call |-> Len(calls), batch |-> recipBatch, response |-> response])
       /\ IF response.code = 200
          THEN ActionReturn(Len(recipBatch))
          ELSE UNCHANGED <<config, pc, exc, lineNum, hdr, final, counters, doneRecips, seen,
                           recipBatch, rowsLog, calls, rets>>

\* Lines 93-122: one PUT of the whole batch.  A rejected batch of two or
\* more is split, and the call for the first half (line 116) passes three
\* arguments to a function of four: Python raises TypeError there, before
\* any further request, and nothing catches it.
updateSuppressionList ==
  /\ pc = "call" /\ cmd = "update"
  /\ UNCHANGED <<delvars, retvars>>
  /\ \E response \in PutResponses :
       /\ puts' = Append(puts, [call |-> Len(calls), batch |-> recipBatch, response |-> response])
       /\ IF response.code = 200
          THEN ActionReturn(Len(recipBatch))
          ELSE IF Len(recipBatch) < 2
          THEN ActionReturn(0)
          ELSE /\ pc' = "aborted" /\ exc' = "TypeError"
               /\ UNCHANGED <<config, lineNum, hdr, final, counters, doneRecips, seen,
                               recipBatch, rowsLog, calls, rets>>

\* -------------------------------------------------- deleteSuppressionList
Min2(a, b) == IF a <= b THEN a ELSE b
Max2(a, b) == IF a >= b THEN a ELSE b

\* A mini batch of one record more than the pool has sessions.
MiniBatchLen_OverPool(remaining) == Min2(Nthreads + 1, remaining)

\* Lines 203-210: the records the loop collects before it calls threadAction:
\* it appends until the mini batch holds Nthreads records or the batch ends.
MiniBatchLen(remaining) == Min2(Max2(Nthreads, 1), remaining)

\* Line 171: the assertion at the head of threadAction (persist.size() is Nthreads).
PoolAdequate(batch) == Len(batch) <= Nthreads

FileFrame == UNCHANGED <<config, lineNum, hdr, final, counters, seen, rowsLog, calls>>

\* Lines 203-214 from position pos with dc entries done: either the next
\* call of threadAction (lines 170-175), or the return of doneCount.
DelContinue(pos, dc) ==
  /\ doneCount' = dc
  /\ IF pos < Len(recipBatch)
     THEN LET mini == SubSeq(recipBatch, pos + 1, pos + MiniBatchLen(Len(recipBatch) - pos))
          IN /\ threadRecips' = mini
             /\ dpos' = pos + Len(mini)
             /\ taCalls' = Append(taCalls, [of |-> Len(calls), recips |-> mini])
             /\ th' = [i \in 1..Nthreads |-> 0]
             /\ ti' = 1 /\ taCount' = 0
             /\ IF PoolAdequate(mini)
                THEN pc' = "ta_start" /\ exc' = exc
                ELSE pc' = "aborted" /\ exc' = "AssertionError"
             /\ FileFrame
             /\ UNCHANGED <<doneRecips, recipBatch, rets>>
     ELSE /\ threadRecips' = <<>>
          /\ dpos' = pos
          /\ UNCHANGED <<taCalls, th, ti, taCount>>
          /\ ActionReturn(dc)

\* Lines 197-202: entry.
deleteSuppressionList ==
  /\ pc = "call" /\ cmd = "delete"
  /\ DelContinue(0, 0)
  /\ UNCHANGED <<puts, threads, taRets, retvars>>

\* Lines 176-180: threadAction creates and starts the deleter of record ti
\* on the persistent session of slot ti.
NewDeleter(slot, r) ==
  [slot |-> slot, recip |-> r[fRecipient], of |-> Len(calls), call |-> Len(taCalls),
   res |-> NoResponse, alive |-> TRUE, tries |-> 0, read |-> NoResponse,
   joined |-> "no"]

ThreadStart ==
  /\ pc = "ta_start"
  /\ threads' = Append(threads, NewDeleter(ti, threadRecips[ti]))
  /\ th' = [th EXCEPT ![ti] = Len(threads) + 1]
  /\ IF ti = Len(threadRecips)
     THEN pc' = "ta_join" /\ ti' = 1
     ELSE pc' = pc /\ ti' = ti + 1
  /\ FileFrame
  /\ UNCHANGED <<exc, doneRecips, recipBatch, rets, puts,
                 dpos, threadRecips, doneCount, taCount, taCalls, taRets, retvars>>

\* Lines 136-147: deleter.run, one pass of its loop: the DELETE request, the
\* response stored in self.res; a 429 goes round again (after the 10 s
\* sleep when its message is the rate-limiting one, at once when it is
\* not), any other status ends the thread.
DeleteResponses == {Resp(204, ""), Resp(404, "not found"), RateLimited, Other429}
RunStep(d, response) ==
  [d EXCEPT !.res = response,
            !.tries = @ + 1,
            !.alive = (response.code = 429)]

DeleterRun ==
  /\ \E t \in 1..Len(threads) :
       /\ threads[t].alive
       /\ \E response \in DeleteResponses :
            /\ response.code = 429 => threads[t].tries + 1 < MaxTries
            /\ threads' = [threads EXCEPT ![t] = RunStep(@, response)]
  /\ FileFrame
  /\ UNCHANGED <<pc, exc, doneRecips, recipBatch, rets, puts,
                 dpos, threadRecips, doneCount, ti, taCount, th, taCalls, taRets, retvars>>

\* Line 185: th[i].join(T + 10) returns when the thread has ended, or after
\* the timeout with the thread still running.
Join ==
  /\ pc = "ta_join"
  /\ threads' = [threads EXCEPT ![th[ti]].joined = IF threads[th[ti]].alive THEN "timeout" ELSE "ended"]
  /\ pc' = "ta_read"
  /\ FileFrame
  /\ UNCHANGED <<exc, doneRecips, recipBatch, rets, puts,
                 dpos, threadRecips, doneCount, ti, taCount, th, taCalls, taRets, retvars>>

\* Lines 186-195: th[i].response() is read, whatever it holds by now: None
\* has no status_code (AttributeError); 204 is counted.
JoinRead(d) == d.res
ReadResponse ==
  /\ pc = "ta_read"
  /\ LET t == th[ti]
         r == JoinRead(threads[t])
         c == IF r.code = 204 THEN taCount + 1 ELSE taCount
     IN /\ threads' = [threads EXCEPT ![t].read = r]
        /\ IF r = NoResponse
           THEN /\ pc' = "aborted" /\ exc' = "AttributeError"
                /\ FileFrame
                /\ UNCHANGED <<doneRecips, recipBatch, rets, dpos, threadRecips, doneCount,
                               ti, taCount, th, taCalls, taRets>>
           ELSE IF ti < Len(threadRecips)
           THEN /\ ti' = ti + 1 /\ taCount' = c /\ pc' = "ta_join"
                /\ FileFrame
                /\ UNCHANGED <<exc, doneRecips, recipBatch, rets, dpos, threadRecips,
                               doneCount, th, taCalls, taRets>>
           ELSE /\ taRets' = Append(taRets, c)
                /\ DelContinue(dpos, doneCount + c)
  /\ UNCHANGED <<puts, retvars>>

\* The file pass of `check` and `update`.
InitFile == InitConfig(Commands)
Next ==
  \/ ReadHeader \/ ReadRow \/ EndOfFile
  \/ noAction \/ updateSuppressionList

\* The file pass of `delete`.
InitDelete == InitConfig({"delete"})
NextDelete ==
  \/ ReadHeader \/ ReadRow \/ EndOfFile
  \/ deleteSuppressionList \/ ThreadStart \/ DeleterRun \/ Join \/ ReadResponse

Spec == InitFile /\ [][Next]_vars
SpecDelete == InitDelete /\ [][NextDelete]_vars

\* The file pass under any of the three commands of actionVector.
InitFilePass == InitConfig(Commands \cup {"delete"})
NextFilePass ==
  \/ ReadHeader \/ ReadRow \/ EndOfFile
  \/ noAction \/ updateSuppressionList
  \/ deleteSuppressionList \/ ThreadStart \/ DeleterRun \/ Join \/ ReadResponse
SpecFilePass == InitFilePass /\ [][NextFilePass]_vars

\* ------------------------------------------------- RetrieveSuppListToFile
\* A link of a page: its relation and the values of the `cursor` query
\* parameter of its href (none when the href has no such parameter).
Link(rel, cursors) == [rel |-> rel, cursors |-> cursors]
\* The link lists a page may carry.
LinkSeqs ==
  { <<>>,
    <<Link("next", <<"c1">>)>>,
    <<Link("next", <<"initial">>)>>,
    <<Link("first", <<"c0">>), Link("next", <<"c1">>)>>,
    <<Link("next", <<"c2">>), Link("last", <<"c9">>)>>,
    <<Link("previous", <<"c0">>), Link("next", <<"c2">>)>>,
    <<Link("next", <<"c1">>), Link("next", <<"c2">>)>>,
    <<Link("previous", <<"c0">>), Link("first", <<"c0">>)>>,
    <<Link("last", <<"c9">>)>>,
    <<Link("self", <<"c1">>)>>,
    <<Link("next", <<"c1">>), Link("self", <<"c1">>)>>,
    <<Link("next", <<>>)>> }

\* A cursor extraction that yields the bare first value.
parse_qs_cursor_Scalar(link) == PyStr(link.cursors[1])

\* Line 260: parse_qs(urlparse(href).query)['cursor'] is the list of the
\* values of the parameter; an href without it has no such key (KeyError).
parse_qs_cursor(link) == PyList(link.cursors)

\* What requests puts on the wire for params['cursor']: a string as one
\* value, a list as one value per element.
WireCursor(c) == IF c.kind = "str" THEN <<c.val>> ELSE c.val

\* Lines 257-267: the links of a page, scanned in order up to the first
\* link that stops the run.
IsNext(l) == l.rel = "next"

\* A link scan that lets unknown relations pass.
LinkFault_Lenient(l) ==
  IF IsNext(l) /\ l.cursors = <<>> THEN "KeyError" ELSE "none"

LinkFault(l) ==
  IF IsNext(l) THEN (IF l.cursors = <<>> THEN "KeyError" ELSE "none")
  ELSE IF l.rel \in {"last", "first", "previous"} THEN "none"
  ELSE "exit1"

ScanLinks(links, cur) ==
  LET faults == {i \in 1..Len(links) : LinkFault(links[i]) # "none"}
      stop == IF faults = {} THEN Len(links) + 1 ELSE SetMin(faults)
      nexts == {i \in 1..(stop - 1) : IsNext(links[i])}
  IN [exc |-> IF faults = {} THEN "none" ELSE LinkFault(links[stop]),
      more |-> nexts # {},
      cursor |-> IF nexts = {} THEN cur ELSE parse_qs_cursor(links[SetMax(nexts)]),
      pages |-> Cardinality(nexts)]

\* Line 251: the total is printed when the request just made was the first.
IsInitial(c) == c = PyStr("initial")

FileVarsFrame ==
  UNCHANGED <<config, lineNum, hdr, final, counters, doneRecips, seen, recipBatch, history, delvars>>

\* Lines 72-87 and 241-267: one pass of the loop of getSuppressionList: the
\* GET with the current cursor.  200 returns the page to
\* RetrieveSuppListToFile, which writes it and scans its links; a 429 goes
\* round the loop again (after the 120 s sleep when its message is the
\* rate-limiting one, at once when it is not); any other status returns
\* None, on which the caller exits.
GetResponses == {Resp(200, ""), Resp(500, "server error"), RateLimited, Other429}
GetOutcome(response) ==
  IF response.code = 200 THEN "json"
  ELSE IF response.code = 429 THEN "retry"
  ELSE "None"

getSuppressionList ==
  /\ pc = "fetch"
  /\ FileVarsFrame
  /\ \E response \in GetResponses :
       /\ response.code = 429 => gtries + 1 < MaxTries
       /\ response.code = 200 => Len(pagesRx) < MaxPages
       /\ gets' = Append(gets, [cursor |-> WireCursor(cursor), after |-> Len(pagesRx),
                                code |-> response.code])
       /\ lastGet' = [response |-> response, outcome |-> GetOutcome(response)]
       /\ IF GetOutcome(response) = "json"
          THEN \E links \in LinkSeqs :
                 LET sc == ScanLinks(links, cursor)
                 IN /\ pagesRx' = Append(pagesRx, links)
                    /\ totalReports' = IF IsInitial(cursor) THEN totalReports + 1 ELSE totalReports
                    /\ cursor' = sc.cursor
                    /\ suppPage' = suppPage + sc.pages
                    /\ gtries' = 0
                    /\ exc' = sc.exc
                    /\ pc' = IF sc.exc # "none" THEN "aborted"
                             ELSE IF sc.more THEN "fetch" ELSE "done"
          ELSE IF GetOutcome(response) = "retry"
          THEN /\ gtries' = gtries + 1
               /\ UNCHANGED <<pc, exc, cursor, suppPage, pagesRx, totalReports>>
          ELSE /\ pc' = "aborted" /\ exc' = "exit1"
               /\ UNCHANGED <<cursor, suppPage, gtries, pagesRx, totalReports>>

\* Lines 471-493: the `retrieve` command; BatchSize is the page size asked for.
InitRetrieve ==
  /\ InitState
  /\ pc = "fetch"
  /\ cmd = "retrieve"
  /\ batchSize = MaxBatchSize
  /\ Nthreads = MaxThreads
  /\ typeDefault = flagNames[2]
  /\ descDefault = NoneVal
NextRetrieve == getSuppressionList
SpecRetrieve == InitRetrieve /\ [][NextRetrieve]_vars

\* ==================================================================== claims
RECURSIVE Flatten(_)
Flatten(ss) == IF ss = <<>> THEN <<>> ELSE Head(ss) \o Flatten(Tail(ss))
RECURSIVE SumSeq(_)
SumSeq(ns) == IF ns = <<>> THEN 0 ELSE Head(ns) + SumSeq(Tail(ns))
Last(ss) == ss[Len(ss)]

\* The batch still pending in processFile: none while an action call is
\* running (or was cut short) and none once the summary is out.
Pending == IF Len(calls) > Len(rets) \/ pc = "done" THEN <<>> ELSE recipBatch
AllBatched == Flatten(calls) \o Pending

\* The identity key of a logged row as the specification words it: the
\* recipient cell as read, trimmed and lower-cased, with the type or null.
RecipCol == CHOOSE i \in 1..Len(hdr) : hdr[i] = fRecipient
TypeOrNull(row) == IF fType \in DOMAIN row THEN row[fType] ELSE NoneVal
KeyAsRead(e) == <<Lower(Strip(e.raw[RecipCol])), TypeOrNull(e.row)>>
Earlier(i) == {j \in 1..(i - 1) : rowsLog[j].recipOK /\ KeyAsRead(rowsLog[j]) = KeyAsRead(rowsLog[i])}
IsFirst(i) == rowsLog[i].recipOK /\ Earlier(i) = {}
IsDuplicate(i) == rowsLog[i].recipOK /\ Earlier(i) # {}
RECURSIVE FirstsUpTo(_)
FirstsUpTo(n) ==
  IF n = 0 THEN <<>>
  ELSE IF IsFirst(n) THEN Append(FirstsUpTo(n - 1), rowsLog[n].row)
  ELSE FirstsUpTo(n - 1)

\* C1: in one file pass a valid row whose identity key equals that of an
\* earlier accepted row is batched nowhere and counted in duplicateRecips,
\* the first row of each key is the one batched, and no key occurs twice in
\* the batches, pending or handed over, whatever the batch boundaries.
C1_FirstSeenWins ==
  /\ AllBatched = FirstsUpTo(Len(rowsLog))
  /\ duplicateRecips = Cardinality({i \in 1..Len(rowsLog) : IsDuplicate(i)})
  /\ goodRecips = Cardinality({i \in 1..Len(rowsLog) : IsFirst(i)})
  /\ \A i, j \in 1..Len(AllBatched) :
        i < j => <<AllBatched[i][fRecipient], TypeOrNull(AllBatched[i])>>
                   # <<AllBatched[j][fRecipient], TypeOrNull(AllBatched[j])>>

\* a@x.c was flushed in a batch of its own, then " A@X.C " came and was
\* counted as its duplicate.
C1_Witness ==
  /\ batchSize = 1 /\ hdr = <<fRecipient>> /\ Len(rowsLog) = 2
  /\ rowsLog[1].raw = <<eA>> /\ rowsLog[2].raw = <<eAup>>
  /\ Len(rets) = 1 /\ goodRecips = 1 /\ duplicateRecips = 1 /\ pc = "rows"

\* C2 as stated: a rejected PUT of two or more records is split and both
\* halves are retried, so the call ends by returning, and the value
\* returned is the number of records in the sub-batches whose PUT got 200.
AcceptedIn(k) ==
  SumSeq([i \in 1..Len(puts) |->
            IF puts[i].call = k /\ puts[i].response.code = 200 THEN Len(puts[i].batch) ELSE 0])
C2_Original ==
  cmd = "update" =>
    /\ \A i \in 1..Len(puts) :
          (puts[i].response.code # 200 /\ Len(puts[i].batch) >= 2) => exc # "TypeError"
    /\ \A k \in 1..Len(rets) : rets[k] = AcceptedIn(k)

\* C3 as stated: a rejected upsert never aborts the run (only a fault of
\* the CSV file does), and a record rejected as a batch of one adds 0.
Rejected(i) == puts[i].response.code # 200
C3_Original ==
  (cmd = "update" /\ \E i \in 1..Len(puts) : Rejected(i)) =>
    /\ pc = "aborted" => exc \in {"exit1", "IndexError"}
    /\ \A i \in 1..Len(puts) :
          (Rejected(i) /\ Len(puts[i].batch) = 1 /\ puts[i].call <= Len(rets))
            => rets[puts[i].call] = 0

\* C4: every batch handed to the action holds 1..batchSize records, the
\* batches handed over inside the loop hold exactly batchSize, no row is
\* read while a batch of batchSize is pending or a call is running, the
\* batch is emptied after the call, and doneRecips is the sum of what the
\* calls returned.
C4_BatchBounds ==
  /\ \A i \in 1..Len(calls) :
        /\ 1 <= Len(calls[i]) /\ Len(calls[i]) <= batchSize
        /\ (i < Len(calls) \/ ~final) => Len(calls[i]) = batchSize
  /\ pc = "rows" => (Len(recipBatch) < batchSize /\ Len(rets) = Len(calls))
  /\ Len(calls) - Len(rets) \in {0, 1}
  /\ goodRecips = Len(AllBatched)
  /\ doneRecips = SumSeq(rets)

\* Three batches of one went to the upsert: accepted, rejected, accepted.
C4_Witness ==
  /\ cmd = "update" /\ batchSize = 1 /\ rets = <<1, 0, 1>> /\ doneRecips = 2

\* C5: once the end of the stream is reached, the batches handed to the
\* action, concatenated in call order, are the accepted records in row
\* order, and the partial batch was handed over once, when there was one.
EndReached == final \/ pc = "done"
C5_AllDeliveredInOrder ==
  EndReached =>
    /\ Flatten(calls) = FirstsUpTo(Len(rowsLog))
    /\ Len(calls) = (goodRecips \div batchSize) + (IF goodRecips % batchSize > 0 THEN 1 ELSE 0)
    /\ final <=> goodRecips % batchSize > 0

\* A full batch of two went out in the loop and the third record at the end.
C5_Witness ==
  /\ pc = "done" /\ final /\ Len(calls) = 2 /\ Len(rets) = 2
  /\ Len(calls[1]) = 2 /\ Len(calls[2]) = 1

\* ------------------------------------------------------------ retrieval
HasNext(links) == \E i \in 1..Len(links) : links[i].rel = "next"
KnownRels == {"next", "first", "last", "previous"}
HasUnknownRel(links) == \E i \in 1..Len(links) : links[i].rel \notin KnownRels

\* C6: every page but the last received carries a next link; a page whose
\* links are only first/last/previous (or none) ends the retrieval; there
\* is one request per page received besides the requests answered by
\* another status; total_count is reported once, with page 1.
C6_PaginationTerminates ==
  /\ totalReports = (IF pagesRx = <<>> THEN 0 ELSE 1)
  /\ \A i \in 1..(Len(pagesRx) - 1) : HasNext(pagesRx[i])
  /\ pc = "done" <=> (pagesRx # <<>> /\ ~HasNext(Last(pagesRx)) /\ ~HasUnknownRel(Last(pagesRx)))
  /\ Len(gets) = Len(pagesRx) + Cardinality({k \in 1..Len(gets) : gets[k].code # 200})
  /\ (pc = "done" /\ \A k \in 1..Len(gets) : gets[k].code = 200) => Len(gets) = Len(pagesRx)

\* Three pages, three requests, the second of them with the cursor
\* "initial" that page 1 gave in its next link.
C6_Witness ==
  /\ pc = "done" /\ Len(pagesRx) = 3 /\ Len(gets) = 3 /\ totalReports = 1
  /\ gets[2].cursor = <<"initial">>

\* C7: the first request carries cursor "initial"; each later one carries
\* the cursor of a next link of the page received just before it; a page
\* with a link of a relation other than next/first/last/previous is the
\* last one received and the run is aborted there.
NextCursors(links) == {links[i].cursors : i \in {j \in 1..Len(links) : links[j].rel = "next"}}
C7_CursorChain ==
  /\ \A k \in 1..Len(gets) :
        IF gets[k].after = 0
        THEN gets[k].cursor = <<"initial">>
        ELSE gets[k].cursor \in NextCursors(pagesRx[gets[k].after])
  /\ \A i \in 1..Len(pagesRx) :
        HasUnknownRel(pagesRx[i]) => (i = Len(pagesRx) /\ pc = "aborted" /\ exc # "none")
  /\ (pagesRx # <<>> /\ ~HasNext(Last(pagesRx))) => pc # "fetch"

\* Page 2, asked for with the cursor of page 1, carried a link "self".
C7_Witness ==
  /\ pc = "aborted" /\ exc = "exit1" /\ Len(pagesRx) = 2 /\ HasUnknownRel(pagesRx[2])
  /\ Len(gets) = 2 /\ gets[2].cursor = <<"c1">>

\* C8 as stated, for the upsert: a PUT answered 429 "Too many requests" is
\* followed by the same PUT again, and until then its call has neither
\* returned nor failed.
C8_Original ==
  \A i \in 1..Len(puts) :
    puts[i].response = RateLimited =>
      \/ i < Len(puts) /\ puts[i + 1].call = puts[i].call /\ puts[i + 1].batch = puts[i].batch
      \/ i = Len(puts) /\ Len(rets) < puts[i].call /\ pc # "aborted"

\* C9 as stated: a response that is neither a success nor the 429 with the
\* rate-limiting message is not retried: getSuppressionList returns None,
\* a deleter thread ends with it.
C9_Original ==
  /\ (lastGet.outcome # "none" /\ lastGet.response.code # 200 /\ lastGet.response # RateLimited)
       => (lastGet.outcome = "None" /\ pc = "aborted")
  /\ \A t \in 1..Len(threads) :
       (threads[t].res \notin {NoResponse, RateLimited} /\ threads[t].res.code # 204)
         => ~threads[t].alive

\* C10 as stated: one worker per record; the value returned is the number
\* of records whose delete call ended with 204; it is the sum of what
\* threadAction returned for the consecutive mini batches, which partition
\* the batch.
ThreadsOf(k) == {t \in 1..Len(threads) : threads[t].of = k}
MiniOf(k) == {j \in 1..Len(taCalls) : taCalls[j].of = k}
C10_Original ==
  \A k \in 1..Len(rets) :
    /\ Cardinality(ThreadsOf(k)) = Len(calls[k])
    /\ (\A t \in ThreadsOf(k) : ~threads[t].alive)
         => rets[k] = Cardinality({t \in ThreadsOf(k) : threads[t].res.code = 204})
    /\ rets[k] = SumSeq([j \in 1..Len(taRets) |-> IF j \in MiniOf(k) THEN taRets[j] ELSE 0])
    /\ calls[k] = Flatten([j \in 1..Len(taCalls) |->
                              IF j \in MiniOf(k) THEN taCalls[j].recips ELSE <<>>])

\* C11 as stated: the mini batches of a delete run one after another: a
\* deleter thread has ended its run, 429 retries included, when the
\* threadAction call that started it has returned, and when a thread of a
\* later threadAction call is started.
C11_Original ==
  \A t \in 1..Len(threads) :
    threads[t].alive =>
      /\ threads[t].call > Len(taRets)
      /\ \A u \in 1..Len(threads) : threads[u].call <= threads[t].call

\* C12 as stated: no two live deleter threads, of the same or of successive
\* mini batches, run on the same persistent session.
C12_Original ==
  \A t, u \in 1..Len(threads) :
    (t # u /\ threads[t].alive /\ threads[u].alive) => threads[t].slot # threads[u].slot

\* C13 as stated: a record whose DELETE was answered 429 "Too many
\* requests" some number of times and then 204 is counted by threadAction
\* as deleted.
C13_Original ==
  \A t \in 1..Len(threads) :
    (threads[t].call <= Len(taRets) /\ ~threads[t].alive /\ threads[t].res.code = 204)
      => threads[t].read.code = 204

\* C14: under `check` the batch pipeline sends nothing, every batch
\* returns 0 and doneRecips stays 0; the counters are, under `check` as
\* under `update`, the same function of the lines read.
LinesRead == 1..Len(rowsLog)
BadLine(i) == RecipStage(RowDict(hdr, rowsLog[i].raw)).bad
GoodFlagLine(i) == FlagStage(RowDict(hdr, rowsLog[i].raw)).flagsOK
C14_CheckIsDryRun ==
  /\ cmd = "check" =>
       /\ puts = <<>> /\ threads = <<>> /\ taCalls = <<>> /\ gets = <<>>
       /\ \A k \in 1..Len(rets) : rets[k] = 0
       /\ doneRecips = 0
  /\ addrsChecked = Len(rowsLog)
  /\ badRecips = Cardinality({i \in LinesRead : BadLine(i)})
  /\ LET flagged == Cardinality({i \in LinesRead : GoodFlagLine(i)})
     IN goodFlags = flagged /\ defaultedFlags = Len(rowsLog) - flagged
  /\ LET firsts == Len(FirstsUpTo(Len(rowsLog)))
         valid == Cardinality({i \in LinesRead : rowsLog[i].recipOK})
     IN goodRecips = firsts /\ duplicateRecips = valid - firsts

\* A headerless file of four lines was checked with batches of one: two
\* batches, one duplicate, one invalid address, nothing done.
C14_Witness ==
  /\ cmd = "check" /\ pc = "done" /\ rets = <<0, 0>>
  /\ goodRecips = 2 /\ duplicateRecips = 1 /\ badRecips = 1 /\ doneRecips = 0

\* C15: a data line whose number of cells differs from the header's, or a
\* header with an unknown field name, ends the run where it is found:
\* nothing happens after it (no action call, so the pending batch is never
\* handed over; no further line; no summary), no action call is left
\* unfinished, and a header fault comes before any action call.
Stopped == pc = "aborted"
C15_FatalParseStops ==
  /\ [](exc # "none" => Stopped)
  /\ [][~Stopped]_vars
  /\ []((Stopped /\ exc = "exit1") => Len(rets) = Len(calls))
  /\ []((Stopped /\ exc = "exit1" /\ lineNum = 1) => (calls = <<>> /\ rowsLog = <<>>))

\* With batches of two, line 2 gave a pending record and line 3 had the
\* wrong number of cells: the run stopped with that record never handed over.
C15_Witness ==
  /\ Stopped /\ exc = "exit1" /\ lineNum = 3 /\ batchSize = 2
  /\ Len(recipBatch) = 1 /\ calls = <<>> /\ cmd = "update"

\* C16 as stated: the `type` cell is preferred to the deprecated flag
\* pair; the default type is applied, and the line counted in
\* defaultedFlags, only when neither the `type` cell nor the flag pair
\* resolves; a line with an invalid `type` and a valid flag pair is
\* resolved from the flags and counted in goodFlags.
Col(name) == CHOOSE i \in 1..Len(hdr) : hdr[i] = name
Cell(e, name) == IF name \in Range(hdr) THEN Strip(e.raw[Col(name)]) ELSE <<>>
TypeResolves(e) ==
  Cell(e, fType) # <<>> /\ stripQuotes(Lower(Cell(e, fType))) \in Range(flagNames)
FlagResolves(e, name) ==
  Cell(e, name) # <<>> /\ strtobool(stripQuotes(Title(Cell(e, name)))) # "err"
FlagsResolve(e) == FlagResolves(e, flagNames[1]) /\ FlagResolves(e, flagNames[2])
Resolves(e) == TypeResolves(e) \/ FlagsResolve(e)
C16_Original ==
  /\ \A i \in 1..Len(rowsLog) :
       /\ rowsLog[i].flagsOK <=> Resolves(rowsLog[i])
       /\ TypeResolves(rowsLog[i]) =>
            rowsLog[i].row[fType] = stripQuotes(Lower(Cell(rowsLog[i], fType)))
  /\ goodFlags = Cardinality({i \in 1..Len(rowsLog) : Resolves(rowsLog[i])})
  /\ defaultedFlags = Cardinality({i \in 1..Len(rowsLog) : ~Resolves(rowsLog[i])})

\* C17: every record of every batch, pending or handed to an action, has a
\* non-empty recipient that passes validation and is in lower case, and a
\* `type`, when it has one, that is one of the two suppression types; a
\* line with an invalid recipient, or with none, is in no batch.
Usable(rec) ==
  /\ fRecipient \in DOMAIN rec
  /\ rec[fRecipient] # <<>>
  /\ validate_email(rec[fRecipient]).ok
  /\ rec[fRecipient] = Lower(rec[fRecipient])
  /\ fType \in DOMAIN rec => rec[fType] \in Range(flagNames)
C17_BatchedAreUsable ==
  /\ \A k \in 1..Len(calls) : \A i \in 1..Len(calls[k]) : Usable(calls[k][i])
  /\ \A i \in 1..Len(recipBatch) : Usable(recipBatch[i])
  /\ \A k \in 1..Len(puts) : \A i \in 1..Len(puts[k].batch) : Usable(puts[k].batch[i])
  /\ \A j \in 1..Len(taCalls) : \A i \in 1..Len(taCalls[j].recips) : Usable(taCalls[j].recips[i])
  /\ \A i \in 1..Len(rowsLog) :
       (~validate_email(Cell(rowsLog[i], fRecipient)).ok) => rowsLog[i].row \notin Range(AllBatched)

\* Under "recipient,type": a line with an invalid address, a line with no
\* address, then " A@X.C " with a quoted type, which alone was handed over.
C17_Witness ==
  /\ Len(rowsLog) = 3 /\ hdr = <<fRecipient, fType>>
  /\ rowsLog[1].raw[1] = eBad /\ rowsLog[2].raw[1] = empty /\ rowsLog[3].raw[1] = eAup
  /\ calls = << <<rowsLog[3].row>> >>
  /\ rowsLog[3].row[fRecipient] = eA /\ rowsLog[3].row[fType] = flagNames[1]

\* C18: the assertion at the head of threadAction holds in every call:
\* each mini batch that deleteSuppressionList passes has at least one
\* record and no more than the pool has sessions, also when BatchSize was
\* capped to 10 * Nthreads.
C18_PoolAssertHolds ==
  /\ exc # "AssertionError"
  /\ \A j \in 1..Len(taCalls) :
       /\ 1 <= Len(taCalls[j].recips) /\ Len(taCalls[j].recips) <= Nthreads
       /\ PoolAdequate(taCalls[j].recips)
  /\ Len(threadRecips) <= Nthreads
  /\ \A t \in 1..Len(threads) : threads[t].slot \in 1..Nthreads

\* With the batch size capped to 10 for a pool of one session, the final
\* batch of two records went to threadAction one record at a time.
C18_Witness ==
  /\ cmd = "delete" /\ Nthreads = 1 /\ batchSize = 10 /\ Len(calls) = 1 /\ Len(calls[1]) = 2
  /\ Len(taCalls) = 2 /\ Len(taRets) = 2 /\ pc = "done"

\* C19 as stated: valid lines with the same lower-cased recipient and
\* different suppression types are distinct entries, each accepted,
\* counted in goodRecips and batched, whether the type comes from the
\* `type` cell or from the deprecated flag pair.
SuppType(row) ==
  IF fType \in DOMAIN row THEN row[fType] ELSE <<row[flagNames[1]], row[flagNames[2]]>>
SameEntry(i, j) ==
  /\ rowsLog[i].recipOK /\ rowsLog[j].recipOK
  /\ rowsLog[i].row[fRecipient] = rowsLog[j].row[fRecipient]
  /\ SuppType(rowsLog[i].row) = SuppType(rowsLog[j].row)
FirstOfEntry(j) == rowsLog[j].recipOK /\ \A i \in 1..(j - 1) : ~SameEntry(i, j)
C19_Original ==
  /\ \A j \in 1..Len(rowsLog) : FirstOfEntry(j) => rowsLog[j].row \in Range(AllBatched)
  /\ goodRecips = Cardinality({j \in 1..Len(rowsLog) : FirstOfEntry(j)})

\* C20 as stated: every data line processed is counted in exactly one of
\* goodRecips, badRecips and duplicateRecips, and in exactly one of
\* goodFlags and defaultedFlags; a line kept out of the batches is counted
\* as invalid or as duplicate.
C20_Original ==
  /\ addrsChecked = goodRecips + badRecips + duplicateRecips
  /\ addrsChecked = goodFlags + defaultedFlags
  /\ Cardinality({i \in 1..Len(rowsLog) : ~IsFirst(i)}) = badRecips + duplicateRecips

\* C21: in every state of a file pass, under check, update and delete,
\* doneRecips <= goodRecips, and what an action returned for a batch lies
\* between 0 and the number of records of that batch; threadAction counts
\* no more than the records of its mini batch.
C21_DoneWithinGood ==
  /\ 0 <= doneRecips /\ doneRecips <= goodRecips
  /\ \A k \in 1..Len(rets) : 0 <= rets[k] /\ rets[k] <= Len(calls[k])
  /\ \A j \in 1..Len(taRets) : 0 <= taRets[j] /\ taRets[j] <= Len(taCalls[j].recips)
  /\ pc \in {"ta_start", "ta_join", "ta_read"} =>
       (taCount <= Len(threadRecips) /\ doneCount + taCount <= dpos /\ dpos <= Len(recipBatch))

\* A delete of two batches of one record: the first counted, the second not.
C21_Witness ==
  /\ cmd = "delete" /\ pc = "done" /\ rets = <<1, 0>> /\ doneRecips = 1 /\ goodRecips = 2

\* C22: an upsert call for a batch of n >= 1 records comes to its end
\* whatever the responses: it issues at most 2n - 1 PUT requests, none of
\* them for an empty batch and none of them a repeat of a sub-batch that
\* was rejected before, and once a request of the call was answered the
\* call is over (it returned, or it raised at line 116).
PutsOf(k) == {i \in 1..Len(puts) : puts[i].call = k}
CallRunning(k) == k = Len(calls) /\ pc = "call"
C22_BisectionBounded ==
  cmd = "update" =>
    /\ \A i \in 1..Len(puts) : puts[i].call \in 1..Len(calls)
    /\ \A k \in 1..Len(calls) :
         /\ Len(calls[k]) >= 1
         /\ Cardinality(PutsOf(k)) <= 2 * Len(calls[k]) - 1
         /\ \A i \in PutsOf(k) : puts[i].batch # <<>>
         /\ \A i, j \in PutsOf(k) : (i < j /\ Rejected(i)) => puts[j].batch # puts[i].batch
         /\ PutsOf(k) # {} => ~CallRunning(k)
         /\ ~CallRunning(k) => PutsOf(k) # {}

\* A batch of two was rejected: its call ended after that one request, at
\* line 116, with no half sent.
C22_Witness ==
  /\ cmd = "update" /\ Len(calls) = 1 /\ Len(calls[1]) = 2
  /\ Len(puts) = 1 /\ puts[1].batch = calls[1] /\ Rejected(1)
  /\ pc = "aborted" /\ exc = "TypeError" /\ rets = <<>>

====
